---------------------------- MODULE Spec2Model ----------------------------
(***************************************************************************)
(* Model of the decision engine of src/main.py: duration parsing, the      *)
(* active / upcoming timetable resolution, the notification policy         *)
(* get_smart_notification with its throttling state, and the retrying      *)
(* client get_llm_response.                                                *)
(*                                                                         *)
(* Time is counted in seconds from midnight of the day the process starts  *)
(* (microseconds are dropped).  All datetimes are compared as wall-clock   *)
(* times of the one configured zone, i.e. TIMEZONE is taken to be a        *)
(* fixed-offset zone such as 'UTC' of TIMEZONE_LIST, for which             *)
(* combine(date, time, tzinfo=TIMEZONE) and now(TIMEZONE) use one offset.  *)
(***************************************************************************)
EXTENDS Integers, Sequences, FiniteSets, TLC

VARIABLES
    timetable,                        \* global timetable, as load_timetable left it
    api_key_set,                      \* whether OPENROUTER_API_KEY is set
    last_in_task_notification_time,   \* global, seconds
    sleep_notification_count,         \* global
    shutdown_flag,                    \* global
    timer_armed,                      \* whether root.after has check_notifications pending
    input_alive,                      \* whether the handle_user_input thread still runs
    in_mainloop,                      \* whether main has reached root.mainloop (line 482)
    clock,                            \* the instant of the latest reading of datetime.now
    ev,                               \* what the latest evaluation of get_smart_notification did
    sleep_sent,                       \* history: number of "Current Task: Sleep" notifications sent
    checkin_at,                       \* history: now_local of the latest check-in decision
    pc,                               \* per thread: position inside get_smart_notification
    loc,                              \* per thread: the locals of get_smart_notification
    call                              \* a direct call of one function: arguments and result

vars == <<timetable, api_key_set, last_in_task_notification_time,
          sleep_notification_count, shutdown_flag, timer_armed, input_alive,
          in_mainloop, clock, ev,
          sleep_sent, checkin_at, pc, loc, call>>

---------------------------------------------------------------------------
(* Configuration and globals, src/main.py lines 61-77 (config defaults).   *)

NOTIFICATION_INTERVAL_SECONDS == 1800
MINUTES_BEFORE_TASK == 15
GRACE_MINUTES_AFTER_START == 2
max_sleep_notifications == 2
sleep_follow_up_interval == 15
DEFAULT_RETRIES == 3

\* datetime(1970, 1, 1): any instant at least a day before the process starts.
EPOCH_SENTINEL == -86400

\* Python's None for duration_minutes (falsy, like 0).
None == -1

\* Bounds of the model.
MaxDay == 0          \* ticks fall on days 0..MaxDay
MaxRetries == 3      \* get_llm_response is called directly with retries 0..MaxRetries
MaxLen == 4          \* parse_duration is called with every string of up to MaxLen characters

HM(h, m) == h * 3600 + m * 60

---------------------------------------------------------------------------
(* parse_duration, lines 161-178.  A duration string is a sequence of      *)
(* one-character strings.                                                  *)

Digits == {"0", "1", "2", "3", "4", "5", "6", "7", "8", "9"}

DigitVal(c) ==
    CASE c = "0" -> 0 [] c = "1" -> 1 [] c = "2" -> 2 [] c = "3" -> 3
      [] c = "4" -> 4 [] c = "5" -> 5 [] c = "6" -> 6 [] c = "7" -> 7
      [] c = "8" -> 8 [] c = "9" -> 9

\* int(num) for a string of digits
RECURSIVE IntOf(_)
IntOf(num) ==
    IF num = <<>> THEN 0
    ELSE IntOf(SubSeq(num, 1, Len(num) - 1)) * 10 + DigitVal(num[Len(num)])

\* ParseLoop without num = "" after a unit
RECURSIVE ParseLoop_NoReset(_, _, _, _)
ParseLoop_NoReset(s, i, num, total_minutes) ==
    IF i > Len(s) THEN total_minutes
    ELSE LET char == s[i] IN
         IF char \in Digits THEN ParseLoop_NoReset(s, i + 1, Append(num, char), total_minutes)
         ELSE IF char \in {"h", "m"} THEN
              IF num # <<>> THEN
                   ParseLoop_NoReset(s, i + 1, num,
                             IF char = "h" THEN total_minutes + IntOf(num) * 60
                                           ELSE total_minutes + IntOf(num))
              ELSE ParseLoop_NoReset(s, i + 1, num, total_minutes)
         ELSE ParseLoop_NoReset(s, i + 1, num, total_minutes)

RECURSIVE ParseLoop(_, _, _, _)
ParseLoop(s, i, num, total_minutes) ==
    IF i > Len(s) THEN total_minutes
    ELSE LET char == s[i] IN
         IF char \in Digits THEN ParseLoop(s, i + 1, Append(num, char), total_minutes)
         ELSE IF char \in {"h", "m"} THEN
              IF num # <<>> THEN
                   ParseLoop(s, i + 1, <<>>,
                             IF char = "h" THEN total_minutes + IntOf(num) * 60
                                           ELSE total_minutes + IntOf(num))
              ELSE ParseLoop(s, i + 1, num, total_minutes)
         ELSE ParseLoop(s, i + 1, num, total_minutes)

parse_duration(duration_str) ==
    IF duration_str = <<>> THEN None ELSE ParseLoop(duration_str, 1, <<>>, 0)

---------------------------------------------------------------------------
(* Timetable files and load_timetable, lines 180-197.  An entry of the     *)
(* file has time <<HH, MM>> (the zero-padded string "HH:MM"), a task name  *)
(* and a duration string; load_timetable adds duration_minutes.            *)

FileEntry(h, m, task, duration) ==
    [time |-> <<h, m>>, task |-> task, duration |-> duration]

\* the timetable of the end-to-end scenario
WakeWorkSleepFile ==
    << FileEntry(8, 0, "Wake", <<>>),
       FileEntry(9, 0, "Work", <<"4", "h">>),
       FileEntry(13, 0, "Sleep", <<>>) >>

\* a single entry at 09:00
WorkOnlyFile == << FileEntry(9, 0, "Work", <<>>) >>

\* a short entry that ends before Sleep starts, written out of order
BrushSleepFile ==
    << FileEntry(22, 0, "Sleep", <<>>),
       FileEntry(21, 58, "Brush", <<"1", "m">>) >>

\* Sleep in another letter case, followed by another entry
SleepWakeFile ==
    << FileEntry(1, 0, "SLEEP", <<"1", "h", "3", "0", "m">>),
       FileEntry(7, 0, "Wake", <<>>) >>

\* no file, or a file with no entries: the global timetable stays []
EmptyFile == << >>

\* an entry whose time "25:00" strptime(..., '%H:%M') rejects
WorkBadFile ==
    << FileEntry(9, 0, "Work", <<"4", "h">>),
       FileEntry(25, 0, "Wake", <<>>) >>

TimetableFiles ==
    {WakeWorkSleepFile, WorkOnlyFile, BrushSleepFile, SleepWakeFile, EmptyFile, WorkBadFile}

\* windows that tile the day: each ends where the next one starts
TilingFile ==
    << FileEntry(0, 0, "Sleep", <<"7", "h">>),
       FileEntry(7, 0, "Wake", <<>>),
       FileEntry(8, 0, "Work", <<"5", "h">>),
       FileEntry(13, 0, "Brush", <<>>) >>

\* the same with the rejected time "07:60" between two entries
WakeBadWorkFile ==
    << FileEntry(7, 0, "Wake", <<"3", "0", "m">>),
       FileEntry(7, 60, "Brush", <<>>),
       FileEntry(9, 0, "Work", <<>>) >>

load_timetable(file) ==
    [i \in 1..Len(file) |->
        [time |-> file[i].time, task |-> file[i].task,
         duration_minutes |-> parse_duration(file[i].duration)]]

\* str.lower() on the task names that occur
Lower(task) ==
    CASE task = "Sleep" -> "sleep"
      [] task = "SLEEP" -> "sleep"
      [] task = "Wake" -> "wake"
      [] task = "Work" -> "work"
      [] task = "Brush" -> "brush"
      [] OTHER -> task

\* x['time'] compared as strings "HH:MM"
TimeStrLeq(a, b) == a[1] < b[1] \/ (a[1] = b[1] /\ a[2] <= b[2])

\* one step of the stable sort: e goes after every entry whose key is <= its own
RECURSIVE InsertSorted(_, _)
InsertSorted(e, s) ==
    IF s = <<>> THEN <<e>>
    ELSE IF TimeStrLeq(s[Len(s)].time, e.time) THEN Append(s, e)
    ELSE Append(InsertSorted(e, SubSeq(s, 1, Len(s) - 1)), s[Len(s)])

\* sorted(timetable, key=lambda x: x['time']), lines 201 and 300
RECURSIVE sorted_timetable(_)
sorted_timetable(tt) ==
    IF tt = <<>> THEN <<>>
    ELSE InsertSorted(tt[Len(tt)], sorted_timetable(SubSeq(tt, 1, Len(tt) - 1)))

\* strptime(entry['time'], '%H:%M') raises ValueError
Malformed(entry) == entry.time[1] \notin 0..23 \/ entry.time[2] \notin 0..59

\* strptime(entry['time'], '%H:%M').time(), as seconds after midnight
TimeOfDay(entry) == HM(entry.time[1], entry.time[2])

DateOf(now) == now \div 86400

\* datetime.combine(now.date(), task_time_obj, tzinfo=TIMEZONE)
TaskDt(entry, now) == DateOf(now) * 86400 + TimeOfDay(entry)

---------------------------------------------------------------------------
(* get_current_active_timetable_entry, lines 199-226.  The result is the   *)
(* index of the active entry in the sorted timetable (0 for None), or      *)
(* raised: when strptime rejects a time string (lines 205 and 213), and    *)
(* when line 223 is evaluated, which hands the string                      *)
(* sorted_timetable[i-1]['time'] to datetime.combine, a TypeError.         *)

\* line 209: duration_minutes is truthy
HasDuration(entry) == entry.duration_minutes # None /\ entry.duration_minutes # 0

\* EndDt with the duration added as seconds
EndDt_Seconds(st, i, now) ==
    IF st[i].duration_minutes # None /\ st[i].duration_minutes # 0
    THEN TaskDt(st[i], now) + st[i].duration_minutes
    ELSE IF i + 1 <= Len(st)
         THEN TaskDt(st[i + 1], now)
         ELSE DateOf(now) * 86400 + HM(23, 59) + 59

\* EndDt with a window that ends before the next entry starts
EndDt_Exclusive(st, i, now) ==
    IF st[i].duration_minutes # None /\ st[i].duration_minutes # 0
    THEN TaskDt(st[i], now) + st[i].duration_minutes * 60
    ELSE IF i + 1 <= Len(st)
         THEN TaskDt(st[i + 1], now) - 1
         ELSE DateOf(now) * 86400 + HM(23, 59) + 59

EndDt(st, i, now) ==
    IF st[i].duration_minutes # None /\ st[i].duration_minutes # 0
    THEN TaskDt(st[i], now) + st[i].duration_minutes * 60
    ELSE IF i + 1 <= Len(st)
         THEN TaskDt(st[i + 1], now)
         ELSE DateOf(now) * 86400 + HM(23, 59) + 59

RECURSIVE ActiveScan(_, _, _)
ActiveScan(st, now, i) ==
    IF i > Len(st) THEN [idx |-> 0, raised |-> FALSE]
    ELSE IF Malformed(st[i])
         THEN [idx |-> 0, raised |-> TRUE]
    ELSE IF ~HasDuration(st[i]) /\ i + 1 <= Len(st) /\ Malformed(st[i + 1])
         THEN [idx |-> 0, raised |-> TRUE]
    ELSE IF TaskDt(st[i], now) <= now /\ now <= EndDt(st, i, now)
         THEN [idx |-> i, raised |-> FALSE]
    ELSE IF i > 1 /\ now = TaskDt(st[i], now)
         THEN [idx |-> 0, raised |-> TRUE]
    ELSE ActiveScan(st, now, i + 1)

get_current_active_timetable_entry(tt, current_time) ==
    ActiveScan(sorted_timetable(tt), current_time, 1)

\* IntDiv60 rounding down
IntDiv60_Floor(x) == x \div 60

\* int(x / 60) for an integer number of seconds x: truncation toward zero
IntDiv60(x) == IF x >= 0 THEN x \div 60 ELSE -((-x) \div 60)

(* The upcoming-entry scan of get_smart_notification, lines 297-312.       *)
(* task_dt_local is the loop variable as the loop leaves it: the start of  *)
(* the upcoming entry, or of the last entry when the loop never breaks     *)
(* (unbound, here 0, when the timetable is empty).  raised: strptime       *)
(* rejects the time string of an entry the loop reaches (line 303).        *)
RECURSIVE UpcomingScan(_, _, _)
UpcomingScan(st, now, i) ==
    IF i > Len(st)
    THEN [idx |-> 0, task_dt_local |-> IF st = <<>> THEN 0 ELSE TaskDt(st[Len(st)], now),
          minutes |-> 0, just_started |-> FALSE, raised |-> FALSE]
    ELSE IF Malformed(st[i])
    THEN [idx |-> 0, task_dt_local |-> 0, minutes |-> 0, just_started |-> FALSE,
          raised |-> TRUE]
    ELSE LET task_dt_local == TaskDt(st[i], now) IN
         IF task_dt_local >= now - GRACE_MINUTES_AFTER_START * 60
         THEN [idx |-> i, task_dt_local |-> task_dt_local,
               minutes |-> IntDiv60(task_dt_local - now),
               just_started |-> /\ now >= task_dt_local
                                /\ now - task_dt_local <= GRACE_MINUTES_AFTER_START * 60,
               raised |-> FALSE]
         ELSE UpcomingScan(st, now, i + 1)

---------------------------------------------------------------------------
(* get_llm_response, lines 82-108.  outcomes[k+1] is what attempt k of     *)
(* requests.post / raise_for_status / json()[...] does:                    *)
(*   ok            a 2xx response with a non-empty content string          *)
(*   empty_content a 2xx response whose content is ""                      *)
(*   conn_error, timeout, http_error   a requests RequestException         *)
(*   not_json      a 2xx body that is not JSON, with a requests whose      *)
(*                 JSONDecodeError is a RequestException (2.27 and later)  *)
(*   not_json_old  the same with an older requests: a plain ValueError     *)
(*   no_content    a 2xx JSON body without choices[0].message.content:     *)
(*                 KeyError, IndexError or TypeError                       *)

Outcomes == {"ok", "empty_content", "no_content", "conn_error", "timeout", "http_error",
             "not_json", "not_json_old"}

IsRequestException(o) == o \in {"conn_error", "timeout", "http_error", "not_json"}

NoCall == [called |-> FALSE, ret |-> "", raised |-> FALSE, attempts |-> 0, sleeps |-> <<>>]

Pow2(k) == 2 ^ k

\* SleepsAfter that also sleeps after the last attempt
SleepsAfter_Mut(attempt, retries) == attempt < retries

\* time.sleep(2 ** attempt) is guarded by attempt < retries - 1, line 104
SleepsAfter(attempt, retries) == attempt < retries - 1

RECURSIVE LLMLoop(_, _, _, _)
LLMLoop(retries, outcomes, attempt, sleeps) ==
    IF attempt >= retries
    THEN [called |-> TRUE, ret |-> "Max retries reached for LLM API.", raised |-> FALSE,
          attempts |-> attempt, sleeps |-> sleeps]
    ELSE LET o == outcomes[attempt + 1] IN
         IF o = "ok"
         THEN [called |-> TRUE, ret |-> "LLM_CONTENT", raised |-> FALSE,
               attempts |-> attempt + 1, sleeps |-> sleeps]
         ELSE IF o = "empty_content"
         THEN [called |-> TRUE, ret |-> "", raised |-> FALSE,
               attempts |-> attempt + 1, sleeps |-> sleeps]
         ELSE IF IsRequestException(o)
         THEN IF SleepsAfter(attempt, retries)
              THEN LLMLoop(retries, outcomes, attempt + 1, Append(sleeps, Pow2(attempt)))
              ELSE [called |-> TRUE, ret |-> "API error: ...", raised |-> FALSE,
                    attempts |-> attempt + 1, sleeps |-> sleeps]
         ELSE [called |-> TRUE, ret |-> "", raised |-> TRUE,
               attempts |-> attempt + 1, sleeps |-> sleeps]

get_llm_response(key_set, retries, outcomes) ==
    IF ~key_set
    THEN [called |-> TRUE, ret |-> "LLM unavailable: Set OPENROUTER_API_KEY in .env.",
          raised |-> FALSE, attempts |-> 0, sleeps |-> <<>>]
    ELSE LLMLoop(retries, outcomes, 0, <<>>)

---------------------------------------------------------------------------
(* Titles, messages and prompts.  A title is its fixed prefix and the task *)
(* name that follows it; a message is its fixed text and the values        *)
(* formatted into it.                                                      *)

Title(prefix, task) == [prefix |-> prefix, task |-> task]
NoTitle == Title("", "")

Message(text, task, time, minutes) ==
    [text |-> text, task |-> task, time |-> time, minutes |-> minutes]
NoMessage == Message("", "", <<>>, 0)

SleepMessage == Message("It's sleep time! Time to unwind and rest for tomorrow!", "", <<>>, 0)

\* the text get_llm_response returned, sent as the message (line 374)
LLMMessage(ret) == Message(ret, "", <<>>, 0)

\* lines 377 and 379
FallbackUpcoming(entry) == Message("Prepare for: <task> at <time>.", entry.task, entry.time, 0)
FallbackCheckin(name) == Message("Doing: <task>. Keep it up!", name, <<>>, 0)

Prompt(kind, current, next, description, minutes) ==
    [kind |-> kind, current |-> current, next |-> next,
     description |-> description, minutes |-> minutes]
NoPrompt == Prompt("", "", "", "", 0)

NoNotification == [title |-> NoTitle, message |-> NoMessage]

---------------------------------------------------------------------------
(* get_smart_notification, lines 285-379, in three parts: the resolution   *)
(* (lines 294-312), the branches that decide and update the two globals    *)
(* (lines 314-366) and the sending (lines 368-379).                        *)

\* the locals of the upcoming scan as lines 297-299 set them
NotScanned ==
    [idx |-> 0, task_dt_local |-> 0, minutes |-> 0, just_started |-> FALSE, raised |-> FALSE]

\* (an exception of line 294 leaves the upcoming scan not run)
Resolve(tt, now) ==
    LET st == sorted_timetable(tt)
        active == get_current_active_timetable_entry(tt, now)
        up == IF active.raised THEN NotScanned ELSE UpcomingScan(st, now, 1)
    IN [st |-> st,
        raised |-> active.raised \/ up.raised,
        active |-> active.idx,
        name |-> IF active.idx # 0 THEN st[active.idx].task ELSE "no specific task",
        up |-> up]

\* SleepGate with the count compared by <= instead of <
SleepGate_Mut(name, count) == Lower(name) = "sleep" /\ count <= max_sleep_notifications

\* line 319: the sleep branch is entered
SleepGate(name, count) == Lower(name) = "sleep" /\ count < max_sleep_notifications

\* line 321-323: the sleep reminder fires
SleepFires(now, task_dt_local, count) ==
    \/ now - task_dt_local <= 0
    \/ /\ now - task_dt_local >= sleep_follow_up_interval * 60
       /\ count = 1

\* CheckinDue with the interval taken as minutes
CheckinDue_Mut(now, last) == now - last >= NOTIFICATION_INTERVAL_SECONDS \div 60

\* line 331: the check-in is due
CheckinDue(now, last) == now - last >= NOTIFICATION_INTERVAL_SECONDS

\* UpcomingDue with the lead bound exclusive
UpcomingDue_Mut(now, up) ==
    \/ /\ 0 <= up.task_dt_local - now
       /\ up.task_dt_local - now < MINUTES_BEFORE_TASK * 60
    \/ up.just_started

\* lines 341-342: the upcoming entry is within the lead time or has just started
UpcomingDue(now, up) ==
    \/ /\ 0 <= up.task_dt_local - now
       /\ up.task_dt_local - now <= MINUTES_BEFORE_TASK * 60
    \/ up.just_started

\* lines 344-351
TimeDescription(now, up) ==
    IF up.just_started
    THEN IF IntDiv60(now - up.task_dt_local) = 0
         THEN [text |-> "just started", minutes |-> 0]
         ELSE [text |-> "started <n> minutes ago", minutes |-> IntDiv60(now - up.task_dt_local)]
    ELSE IF up.minutes = 0
         THEN [text |-> "is starting now", minutes |-> 0]
         ELSE [text |-> "in <n> minutes",
               minutes |-> IF up.minutes < 0 THEN -up.minutes ELSE up.minutes]

\* lines 353-366: the upcoming-task branch
UpcomingBranch(r, now, last, count) ==
    LET entry == r.st[r.up.idx]
        d == TimeDescription(now, r.up)
    IN IF Lower(entry.task) = "sleep"
       THEN [branch |-> "upcoming", returned |-> FALSE,
             title |-> Title("Time for Bed!", ""),
             message |-> IF r.up.minutes > 0
                         THEN Message("Scheduled to sleep in <n> minutes. Wind down!",
                                      "", <<>>, r.up.minutes)
                         ELSE Message("It's past <time>. Time to rest!", "", entry.time, 0),
             prompt |-> NoPrompt, sent |-> NoNotification,
             last |-> last, count |-> count]
       ELSE [branch |-> "upcoming", returned |-> FALSE,
             title |-> Title("Upcoming: ", entry.task),
             message |-> NoMessage,
             prompt |-> Prompt("transition", r.name, entry.task, d.text, d.minutes),
             sent |-> NoNotification,
             last |-> last, count |-> count]

\* ActiveBranch without the return of line 329 after a reminder was sent
ActiveBranch_FallThrough(r, now, last, count) ==
    IF SleepGate(r.name, count)
    THEN IF SleepFires(now, r.up.task_dt_local, count)
         THEN [branch |-> "sleep", returned |-> FALSE,
               title |-> Title("Current Task: Sleep", ""), message |-> SleepMessage,
               prompt |-> NoPrompt,
               sent |-> [title |-> Title("Current Task: Sleep", ""), message |-> SleepMessage],
               last |-> now, count |-> count + 1]
         ELSE [branch |-> "sleep", returned |-> TRUE,
               title |-> NoTitle, message |-> NoMessage, prompt |-> NoPrompt,
               sent |-> NoNotification, last |-> last, count |-> count]
    ELSE IF CheckinDue(now, last)
         THEN [branch |-> "checkin", returned |-> FALSE,
               title |-> Title("Check-in: ", r.name), message |-> NoMessage,
               prompt |-> Prompt("check-in", r.name, "", "", 0),
               sent |-> NoNotification, last |-> now, count |-> count]
         ELSE [branch |-> "active", returned |-> FALSE,
               title |-> NoTitle, message |-> NoMessage, prompt |-> NoPrompt,
               sent |-> NoNotification, last |-> last, count |-> count]

\* ActiveBranch without the return of line 329 when no reminder is due
ActiveBranch_NoReturn(r, now, last, count) ==
    IF SleepGate(r.name, count) /\ SleepFires(now, r.up.task_dt_local, count)
    THEN [branch |-> "sleep", returned |-> TRUE,
          title |-> Title("Current Task: Sleep", ""), message |-> SleepMessage,
          prompt |-> NoPrompt,
          sent |-> [title |-> Title("Current Task: Sleep", ""), message |-> SleepMessage],
          last |-> now, count |-> count + 1]
    ELSE IF CheckinDue(now, last)
         THEN [branch |-> "checkin", returned |-> FALSE,
               title |-> Title("Check-in: ", r.name), message |-> NoMessage,
               prompt |-> Prompt("check-in", r.name, "", "", 0),
               sent |-> NoNotification, last |-> now, count |-> count]
         ELSE [branch |-> "active", returned |-> FALSE,
               title |-> NoTitle, message |-> NoMessage, prompt |-> NoPrompt,
               sent |-> NoNotification, last |-> last, count |-> count]

\* lines 318-338: the active-task branch
ActiveBranch(r, now, last, count) ==
    IF SleepGate(r.name, count)
    THEN IF SleepFires(now, r.up.task_dt_local, count)
         THEN [branch |-> "sleep", returned |-> TRUE,
               title |-> Title("Current Task: Sleep", ""), message |-> SleepMessage,
               prompt |-> NoPrompt,
               sent |-> [title |-> Title("Current Task: Sleep", ""), message |-> SleepMessage],
               last |-> now, count |-> count + 1]
         ELSE [branch |-> "sleep", returned |-> TRUE,
               title |-> NoTitle, message |-> NoMessage, prompt |-> NoPrompt,
               sent |-> NoNotification, last |-> last, count |-> count]
    ELSE IF CheckinDue(now, last)
         THEN [branch |-> "checkin", returned |-> FALSE,
               title |-> Title("Check-in: ", r.name), message |-> NoMessage,
               prompt |-> Prompt("check-in", r.name, "", "", 0),
               sent |-> NoNotification, last |-> now, count |-> count]
         ELSE [branch |-> "active", returned |-> FALSE,
               title |-> NoTitle, message |-> NoMessage, prompt |-> NoPrompt,
               sent |-> NoNotification, last |-> last, count |-> count]

\* lines 314-366
Branches(r, now, last, count) ==
    IF r.active # 0 /\ Lower(r.name) # "no specific task"
    THEN ActiveBranch(r, now, last, count)
    ELSE IF r.up.idx # 0 /\ UpcomingDue(now, r.up)
         THEN UpcomingBranch(r, now, last, count)
         ELSE [branch |-> "none", returned |-> FALSE,
               title |-> NoTitle, message |-> NoMessage, prompt |-> NoPrompt,
               sent |-> NoNotification, last |-> last, count |-> count]

\* lines 373-379: what is sent once get_llm_response has returned ret
ComposedMessage(b, r, ret) ==
    IF ret # "" THEN LLMMessage(ret)
    ELSE IF b.title.prefix = "Upcoming: " THEN FallbackUpcoming(r.st[r.up.idx])
    ELSE FallbackCheckin(r.name)

\* the calls of send_notification the branch made itself (line 326)
BranchSends(b) == IF b.sent # NoNotification THEN 1 ELSE 0

\* lines 368-379.  sends counts the calls of send_notification of the whole
\* evaluation, immediate those with a fixed text (lines 326 and 369), llm_calls
\* the calls of get_llm_response.
Sending(b, r, key_set, outcomes) ==
    IF b.returned
    THEN [sent |-> b.sent, llm |-> NoCall, raised |-> FALSE,
          sends |-> BranchSends(b), immediate |-> BranchSends(b), llm_calls |-> 0]
    ELSE IF b.message # NoMessage
    THEN [sent |-> [title |-> b.title, message |-> b.message], llm |-> NoCall, raised |-> FALSE,
          sends |-> BranchSends(b) + 1, immediate |-> BranchSends(b) + 1, llm_calls |-> 0]
    ELSE IF b.prompt # NoPrompt /\ b.title # NoTitle
    THEN LET llm == get_llm_response(key_set, DEFAULT_RETRIES, outcomes) IN
         IF llm.raised
         THEN [sent |-> NoNotification, llm |-> llm, raised |-> TRUE,
               sends |-> BranchSends(b), immediate |-> BranchSends(b), llm_calls |-> 1]
         ELSE [sent |-> [title |-> b.title, message |-> ComposedMessage(b, r, llm.ret)],
               llm |-> llm, raised |-> FALSE,
               sends |-> BranchSends(b) + 1, immediate |-> BranchSends(b), llm_calls |-> 1]
    ELSE [sent |-> NoNotification, llm |-> NoCall, raised |-> FALSE,
          sends |-> BranchSends(b), immediate |-> BranchSends(b), llm_calls |-> 0]

\* the decision in the words of the specification
DecisionKind(b) ==
    IF b.message # NoMessage THEN "immediate"
    ELSE IF b.prompt # NoPrompt THEN "compose"
    ELSE "none"

NoEvaluation ==
    [now |-> 0, active |-> "", active_dt |-> 0, upcoming |-> "", upcoming_dt |-> 0,
     just_started |-> FALSE, task_dt_local |-> 0,
     branch |-> "", kind |-> "none", title |-> NoTitle, prompt |-> NoPrompt,
     sent |-> NoNotification, llm |-> NoCall, raised |-> FALSE,
     sends |-> 0, immediate |-> 0, llm_calls |-> 0,
     count_before |-> 0, last |-> EPOCH_SENTINEL, count |-> 0]

\* one whole evaluation of get_smart_notification at now
get_smart_notification(tt, now, last, count, key_set, outcomes) ==
    LET r == Resolve(tt, now) IN
    IF tt = <<>>
    THEN [NoEvaluation EXCEPT !.now = now, !.branch = "empty",
                              !.count_before = count, !.last = last, !.count = count]
    ELSE IF r.raised
    THEN [NoEvaluation EXCEPT !.now = now, !.raised = TRUE, !.branch = "resolve",
                              !.count_before = count, !.last = last, !.count = count]
    ELSE LET b == Branches(r, now, last, count)
             s == Sending(b, r, key_set, outcomes)
         IN [now |-> now,
             active |-> IF r.active # 0 THEN r.name ELSE "",
             active_dt |-> IF r.active # 0 THEN TaskDt(r.st[r.active], now) ELSE 0,
             upcoming |-> IF r.up.idx # 0 THEN r.st[r.up.idx].task ELSE "",
             upcoming_dt |-> IF r.up.idx # 0 THEN TaskDt(r.st[r.up.idx], now) ELSE 0,
             just_started |-> r.up.just_started,
             task_dt_local |-> r.up.task_dt_local,
             branch |-> b.branch, kind |-> DecisionKind(b),
             title |-> b.title, prompt |-> b.prompt,
             sent |-> s.sent, llm |-> s.llm, raised |-> s.raised,
             sends |-> s.sends, immediate |-> s.immediate, llm_calls |-> s.llm_calls,
             count_before |-> count, last |-> b.last, count |-> b.count]

---------------------------------------------------------------------------
(* The instants at which datetime.now is read.  The clock never runs       *)
(* backwards; the instants are those around the starts of the entries at   *)
(* which the comparisons of the policy change value.                       *)

Offsets == {-960, -930, -900, -600, 0, 30, 120, 150, 900, 1800}

\* (with an empty timetable: two instants of each day)
ClockValues(tt) ==
    IF tt = <<>>
    THEN { d * 86400 + o : d \in 0..MaxDay, o \in {0, NOTIFICATION_INTERVAL_SECONDS} }
    ELSE { d * 86400 + TimeOfDay(tt[i]) + o :
              d \in 0..MaxDay, i \in { j \in 1..Len(tt) : ~Malformed(tt[j]) }, o \in Offsets }

\* What the attempts of one get_llm_response call do: some failures, then an
\* attempt that does not fail (the attempts after it are never made).
Ending == {"ok", "empty_content", "no_content"}

OutcomeRuns ==
    { o \in [1..DEFAULT_RETRIES -> {"conn_error", "ok", "empty_content", "no_content"}] :
        \A k \in 1..DEFAULT_RETRIES :
            o[k] \in Ending => \A j \in (k + 1)..DEFAULT_RETRIES : o[j] = "ok" }

AllOk == [k \in 1..DEFAULT_RETRIES |-> "ok"]

IsSleepReminder(n) == n.title = Title("Current Task: Sleep", "")

Threads == {"timer", "input"}

\* now_local and the value read for sleep_notification_count += 1
NoLocals == [now |-> 0, tmp |-> 0]

---------------------------------------------------------------------------
(* Spec: the evaluations run one after the other, each as one step.        *)

Init ==
    /\ timetable \in { load_timetable(f) : f \in TimetableFiles }
    /\ api_key_set \in BOOLEAN
    /\ last_in_task_notification_time = EPOCH_SENTINEL
    /\ sleep_notification_count = 0
    /\ shutdown_flag = FALSE
    /\ timer_armed = TRUE
    /\ input_alive = TRUE
    /\ in_mainloop = FALSE
    /\ clock = 0
    /\ ev = NoEvaluation
    /\ sleep_sent = 0
    /\ checkin_at = EPOCH_SENTINEL
    /\ pc = [t \in Threads |-> "idle"]
    /\ loc = [t \in Threads |-> NoLocals]
    /\ call = [state |-> "none"]

\* the effect of one evaluation on the globals and the history
Evaluated(e) ==
    /\ clock' = e.now
    /\ ev' = e
    /\ last_in_task_notification_time' = e.last
    /\ sleep_notification_count' = e.count
    /\ sleep_sent' = IF IsSleepReminder(e.sent) THEN sleep_sent + 1 ELSE sleep_sent
    /\ checkin_at' = IF e.branch = "checkin" THEN e.now ELSE checkin_at

\* the outcome runs that make a difference at now: the client is reached only
\* with a prompt, and makes requests only with an API key
RunsAt(now) ==
    LET r == Resolve(timetable, now) IN
    IF /\ timetable # <<>>
       /\ ~r.raised
       /\ api_key_set
       /\ DecisionKind(Branches(r, now, last_in_task_notification_time,
                                sleep_notification_count)) = "compose"
    THEN OutcomeRuns
    ELSE {AllOk}

Evaluations ==
    UNION { { get_smart_notification(timetable, now, last_in_task_notification_time,
                                     sleep_notification_count, api_key_set, o) :
                o \in RunsAt(now) } :
            now \in { t \in ClockValues(timetable) : t >= clock } }

(* check_notifications, lines 476-482.  The first call is made by main, the  *)
(* later ones by the timer root.after armed at line 479.  An exception of   *)
(* get_smart_notification skips line 479: out of a timer callback it is     *)
(* reported by Tk and the timer stays unarmed; out of the first call it     *)
(* ends main, and with it the daemon thread of handle_user_input.           *)
TimerTick ==
    /\ timer_armed
    /\ ~shutdown_flag
    /\ \E e \in Evaluations :
          /\ Evaluated(e)
          /\ timer_armed' = ~e.raised
          /\ input_alive' = IF e.raised /\ ~in_mainloop THEN FALSE ELSE input_alive
          /\ in_mainloop' = ~(e.raised /\ ~in_mainloop)
    /\ UNCHANGED <<timetable, api_key_set, shutdown_flag, pc, loc, call>>

\* handle_user_input, lines 389-391: the console command "notify"
ManualNotify ==
    /\ input_alive
    /\ ~shutdown_flag
    /\ \E e \in Evaluations :
          /\ Evaluated(e)
          /\ input_alive' = ~e.raised
    /\ UNCHANGED <<timetable, api_key_set, shutdown_flag, timer_armed, in_mainloop,
                   pc, loc, call>>

\* signal_handler, lines 442-453
Shutdown ==
    /\ ~shutdown_flag
    /\ shutdown_flag' = TRUE
    /\ UNCHANGED <<timetable, api_key_set, last_in_task_notification_time,
                   sleep_notification_count, timer_armed, input_alive, in_mainloop,
                   clock, ev, sleep_sent, checkin_at, pc, loc, call>>

Next == TimerTick \/ ManualNotify \/ Shutdown

Spec == Init /\ [][Next]_vars

---------------------------------------------------------------------------
(* SpecLLM: get_llm_response called with any retries and any outcomes.     *)

InitLLM ==
    /\ call \in { [state |-> "pending", key_set |-> k, retries |-> n, outcomes |-> o,
                   result |-> NoCall] :
                  k \in BOOLEAN,
                  n \in 0..MaxRetries,
                  o \in [1..MaxRetries -> Outcomes] }
    /\ timetable = <<>>
    /\ api_key_set = call.key_set
    /\ last_in_task_notification_time = EPOCH_SENTINEL
    /\ sleep_notification_count = 0
    /\ shutdown_flag = FALSE
    /\ timer_armed = FALSE
    /\ input_alive = FALSE
    /\ in_mainloop = FALSE
    /\ clock = 0
    /\ ev = NoEvaluation
    /\ sleep_sent = 0
    /\ checkin_at = EPOCH_SENTINEL
    /\ pc = [t \in Threads |-> "idle"]
    /\ loc = [t \in Threads |-> NoLocals]

\* one call of get_llm_response, from entry to return or exception
LLMCall ==
    /\ call.state = "pending"
    /\ LET res == get_llm_response(call.key_set, call.retries, call.outcomes) IN
       call' = [call EXCEPT !.state = IF res.raised THEN "raised" ELSE "returned",
                            !.result = res]
    /\ UNCHANGED <<timetable, api_key_set, last_in_task_notification_time,
                   sleep_notification_count, shutdown_flag, timer_armed, input_alive,
                   in_mainloop, clock, ev, sleep_sent, checkin_at, pc, loc>>

NextLLM == LLMCall

SpecLLM == InitLLM /\ [][NextLLM]_vars

---------------------------------------------------------------------------
(* SpecPure: parse_duration called with any duration string, and the       *)
(* resolution of get_smart_notification (the active-entry scan and the     *)
(* upcoming-entry scan, lines 294-312) run on any timetable at any instant.*)

\* a digit of each kind that matters, the two units, and a character that is neither
DurationChars == {"0", "1", "3", "h", "m", "x"}

\* "1h30m", "45m", "2h" and the empty (or absent) duration
ExampleDurations ==
    { <<"1", "h", "3", "0", "m">>, <<"4", "5", "m">>, <<"2", "h">>, <<>> }

DurationInputs ==
    UNION { [1..k -> DurationChars] : k \in 0..MaxLen } \cup ExampleDurations

ResolveFiles ==
    (TimetableFiles \ {EmptyFile}) \cup {TilingFile, WakeBadWorkFile}

\* every minute of the day, its middle and its last second
ResolveInstants ==
    { d * 86400 + HM(h, m) + sec :
        d \in 0..MaxDay, h \in 0..23, m \in 0..59, sec \in {0, 30, 59} }

InitPure ==
    /\ \/ /\ call \in { [state |-> "pending", fn |-> "parse_duration", duration_str |-> d] :
                          d \in DurationInputs }
          /\ timetable = <<>>
          /\ clock = 0
       \/ /\ call = [state |-> "pending", fn |-> "resolve"]
          /\ timetable \in { load_timetable(f) : f \in ResolveFiles }
          /\ clock \in ResolveInstants
    /\ api_key_set = FALSE
    /\ last_in_task_notification_time = EPOCH_SENTINEL
    /\ sleep_notification_count = 0
    /\ shutdown_flag = FALSE
    /\ timer_armed = FALSE
    /\ input_alive = FALSE
    /\ in_mainloop = FALSE
    /\ ev = NoEvaluation
    /\ sleep_sent = 0
    /\ checkin_at = EPOCH_SENTINEL
    /\ pc = [t \in Threads |-> "idle"]
    /\ loc = [t \in Threads |-> NoLocals]

PureUnchanged ==
    UNCHANGED <<timetable, api_key_set, last_in_task_notification_time,
                sleep_notification_count, shutdown_flag, timer_armed, input_alive,
                in_mainloop, clock, ev, sleep_sent, checkin_at, pc, loc>>

\* one call of parse_duration
ParseDurationCall ==
    /\ call.state = "pending"
    /\ call.fn = "parse_duration"
    /\ call' = [state |-> "returned", fn |-> "parse_duration",
                duration_str |-> call.duration_str,
                result |-> parse_duration(call.duration_str)]
    /\ PureUnchanged

\* lines 294-312 at now_local = clock: both scans, to their results or an exception
ResolveCall ==
    /\ call.state = "pending"
    /\ call.fn = "resolve"
    /\ LET r == Resolve(timetable, clock) IN
       call' = [state |-> IF r.raised THEN "raised" ELSE "returned", fn |-> "resolve",
                result |-> r]
    /\ PureUnchanged

NextPure == ParseDurationCall \/ ResolveCall

SpecPure == InitPure /\ [][NextPure]_vars

---------------------------------------------------------------------------
(* SpecConc: the timer callback (main thread) and the console thread       *)
(* (threading.Thread(target=handle_user_input), line 458) both run         *)
(* get_smart_notification, without a lock; each read and each write of     *)
(* the two globals is a step of its own.                                   *)

ConcOffsets == {0, 900, 1800}

ConcClockValues(tt) ==
    { TimeOfDay(tt[i]) + o : i \in { j \in 1..Len(tt) : ~Malformed(tt[j]) }, o \in ConcOffsets }

InitConc ==
    /\ timetable \in { load_timetable(f) : f \in TimetableFiles }
    /\ api_key_set = TRUE
    /\ last_in_task_notification_time = EPOCH_SENTINEL
    /\ sleep_notification_count = 0
    /\ shutdown_flag = FALSE
    /\ timer_armed = TRUE
    /\ input_alive = TRUE
    /\ in_mainloop = FALSE
    /\ clock = 0
    /\ ev = NoEvaluation
    /\ sleep_sent = 0
    /\ checkin_at = EPOCH_SENTINEL
    /\ pc = [t \in Threads |-> "idle"]
    /\ loc = [t \in Threads |-> NoLocals]
    /\ call = [state |-> "none"]

ConcUnchanged ==
    UNCHANGED <<timetable, api_key_set, shutdown_flag, timer_armed, input_alive,
                in_mainloop, ev, call>>

Goto(t, label) == pc' = [pc EXCEPT ![t] = label]

\* time passes
AdvanceClock ==
    /\ \E now \in ConcClockValues(timetable) : now > clock /\ clock' = now
    /\ UNCHANGED <<last_in_task_notification_time, sleep_notification_count,
                   sleep_sent, checkin_at, pc, loc>>
    /\ ConcUnchanged

\* line 288: a trigger starts an evaluation and reads the clock
Begin(t) ==
    /\ pc[t] = "idle"
    /\ loc' = [loc EXCEPT ![t] = [now |-> clock, tmp |-> 0]]
    /\ Goto(t, "L318")
    /\ UNCHANGED <<last_in_task_notification_time, sleep_notification_count,
                   sleep_sent, checkin_at, clock>>
    /\ ConcUnchanged

\* lines 294-319 and 340: resolution, then the branch; line 319 reads the count
L318(t) ==
    /\ pc[t] = "L318"
    /\ LET r == Resolve(timetable, loc[t].now) IN
       IF timetable = <<>> \/ r.raised THEN Goto(t, "idle")
       ELSE IF r.active # 0 /\ Lower(r.name) # "no specific task"
       THEN IF SleepGate(r.name, sleep_notification_count)
            THEN Goto(t, "L321")
            ELSE Goto(t, "L331")
       ELSE IF r.up.idx # 0 /\ UpcomingDue(loc[t].now, r.up)
            THEN Goto(t, "L368")
            ELSE Goto(t, "idle")
    /\ UNCHANGED <<last_in_task_notification_time, sleep_notification_count,
                   sleep_sent, checkin_at, clock, loc>>
    /\ ConcUnchanged

\* lines 320-323: the fire condition reads the count again; line 329 returns
L321(t) ==
    /\ pc[t] = "L321"
    /\ LET r == Resolve(timetable, loc[t].now) IN
       IF SleepFires(loc[t].now, r.up.task_dt_local, sleep_notification_count)
       THEN Goto(t, "L326")
       ELSE Goto(t, "idle")
    /\ UNCHANGED <<last_in_task_notification_time, sleep_notification_count,
                   sleep_sent, checkin_at, clock, loc>>
    /\ ConcUnchanged

\* line 326: send_notification("Current Task: Sleep", ...)
L326(t) ==
    /\ pc[t] = "L326"
    /\ sleep_sent' = sleep_sent + 1
    /\ Goto(t, "L327")
    /\ UNCHANGED <<last_in_task_notification_time, sleep_notification_count,
                   checkin_at, clock, loc>>
    /\ ConcUnchanged

\* line 327, sleep_notification_count += 1: the load
L327(t) ==
    /\ pc[t] = "L327"
    /\ loc' = [loc EXCEPT ![t].tmp = sleep_notification_count]
    /\ Goto(t, "L327_store")
    /\ UNCHANGED <<last_in_task_notification_time, sleep_notification_count,
                   sleep_sent, checkin_at, clock>>
    /\ ConcUnchanged

\* line 327: the store
L327_store(t) ==
    /\ pc[t] = "L327_store"
    /\ sleep_notification_count' = loc[t].tmp + 1
    /\ Goto(t, "L328")
    /\ UNCHANGED <<last_in_task_notification_time, sleep_sent, checkin_at, clock, loc>>
    /\ ConcUnchanged

\* lines 328-329
L328(t) ==
    /\ pc[t] = "L328"
    /\ last_in_task_notification_time' = loc[t].now
    /\ Goto(t, "idle")
    /\ UNCHANGED <<sleep_notification_count, sleep_sent, checkin_at, clock, loc>>
    /\ ConcUnchanged

\* line 331: the check-in gate reads last_in_task_notification_time
L331(t) ==
    /\ pc[t] = "L331"
    /\ IF CheckinDue(loc[t].now, last_in_task_notification_time)
       THEN Goto(t, "L338")
       ELSE Goto(t, "idle")
    /\ UNCHANGED <<last_in_task_notification_time, sleep_notification_count,
                   sleep_sent, checkin_at, clock, loc>>
    /\ ConcUnchanged

\* line 338
L338(t) ==
    /\ pc[t] = "L338"
    /\ last_in_task_notification_time' = loc[t].now
    /\ Goto(t, "L368")
    /\ UNCHANGED <<sleep_notification_count, sleep_sent, checkin_at, clock, loc>>
    /\ ConcUnchanged

\* lines 368-379: the upcoming or check-in notification is composed and sent
L368(t) ==
    /\ pc[t] = "L368"
    /\ LET r == Resolve(timetable, loc[t].now) IN
       checkin_at' = IF r.active # 0 THEN loc[t].now ELSE checkin_at
    /\ Goto(t, "idle")
    /\ UNCHANGED <<last_in_task_notification_time, sleep_notification_count,
                   sleep_sent, clock, loc>>
    /\ ConcUnchanged

ThreadStep(t) ==
    \/ Begin(t) \/ L318(t) \/ L321(t) \/ L326(t) \/ L327(t) \/ L327_store(t)
    \/ L328(t) \/ L331(t) \/ L338(t) \/ L368(t)

NextConc == AdvanceClock \/ \E t \in Threads : ThreadStep(t)

SpecConc == InitConc /\ [][NextConc]_vars

---------------------------------------------------------------------------
(* Properties.                                                             *)

\* the latest step recorded an evaluation that got past the resolution
HasEvaluated == ev.branch \notin {"", "empty", "resolve"}

TimeOfDayOf(now) == now % 86400

SleepTitle == Title("Current Task: Sleep", "")

\* C1: with the timetable [08:00 Wake, 09:00 Work 4h, 13:00 Sleep] and
\* minutes_before_task = 15, an evaluation at 08:50 yields a compose decision
\* titled "Upcoming: Work", whatever the notification state.
C1_ScenarioUpcomingWork ==
    ( /\ timetable = load_timetable(WakeWorkSleepFile)
      /\ HasEvaluated
      /\ TimeOfDayOf(ev.now) = HM(8, 50) )
    => /\ ev.kind = "compose"
       /\ ev.title = Title("Upcoming: ", "Work")

\* C2: the number of sleep reminders sent never exceeds max_sleep_notifications,
\* and sleep_notification_count equals that number and never exceeds the maximum.
C2_SleepRemindersBounded ==
    /\ sleep_sent <= max_sleep_notifications
    /\ sleep_notification_count = sleep_sent
    /\ sleep_notification_count <= max_sleep_notifications

\* both reminders were sent and a later tick inside the Sleep window sent none
C2_Witness ==
    /\ sleep_sent = max_sleep_notifications
    /\ HasEvaluated
    /\ Lower(ev.active) = "sleep"
    /\ ev.count_before = max_sleep_notifications
    /\ ~IsSleepReminder(ev.sent)

\* C3: a check-in is decided on a tick only if now - last_in_task_notification_time
\* >= notification_interval_seconds at that tick; it sets
\* last_in_task_notification_time to that tick's now; and no check-in is decided
\* less than notification_interval_seconds after the previous one.
C3_CheckinThrottled ==
    [][ (ev' # ev /\ ev'.title.prefix = "Check-in: ")
        => /\ ev'.now - last_in_task_notification_time >= NOTIFICATION_INTERVAL_SECONDS
           /\ last_in_task_notification_time' = ev'.now
           /\ ev'.now - checkin_at >= NOTIFICATION_INTERVAL_SECONDS ]_vars

\* a tick less than the interval after a check-in, in an active task, sent nothing
C3_Witness ==
    /\ HasEvaluated
    /\ ev.branch = "active"
    /\ checkin_at # EPOCH_SENTINEL
    /\ ev.now > checkin_at
    /\ ev.now - checkin_at < NOTIFICATION_INTERVAL_SECONDS
    /\ last_in_task_notification_time = checkin_at
    /\ ev.sent = NoNotification

C5_GraceTakesUpcoming ==
    ( /\ timetable = load_timetable(WorkOnlyFile)
      /\ HasEvaluated
      /\ TimeOfDayOf(ev.now) >= HM(9, 0)
      /\ TimeOfDayOf(ev.now) <= HM(9, 0) + GRACE_MINUTES_AFTER_START * 60 )
    => /\ ev.just_started
       /\ ev.branch = "upcoming"
       /\ ev.title = Title("Upcoming: ", "Work")

\* a request failure: what requests raises as a RequestException
AllAttemptsFail(c) ==
    \A k \in 1..c.retries : c.outcomes[k] \in {"conn_error", "timeout", "http_error"}

\* 2^0, 2^1, ... seconds after the failed attempts 0 .. n-2
ExpectedDelays(n) == [k \in 1..(n - 1) |-> 2 ^ (k - 1)]

\* C6: with the API key set, retries = n >= 1 and every attempt failing,
\* get_llm_response makes exactly n attempts, sleeps 2^k seconds after the
\* failed attempt k for k < n-1 and not after the last, and returns; for n = 3
\* the delays are 1 s then 2 s.
C6_RetriesAndBackoff ==
    ( /\ call.state # "pending"
      /\ call.key_set
      /\ call.retries >= 1
      /\ AllAttemptsFail(call) )
    => /\ call.state = "returned"
       /\ call.result.attempts = call.retries
       /\ call.result.sleeps = ExpectedDelays(call.retries)
       /\ call.retries = 3 => call.result.sleeps = <<1, 2>>

\* three failing attempts, delays 1 s and 2 s, then the return
C6_Witness ==
    /\ call.state = "returned"
    /\ call.key_set
    /\ call.retries = 3
    /\ AllAttemptsFail(call)
    /\ call.result.attempts = 3
    /\ call.result.sleeps = <<1, 2>>

\* C7: get_llm_response never raises: whatever the attempts do, the call ends by
\* returning a string.
C7_NeverRaises ==
    call.state # "pending" => call.state = "returned" /\ ~call.result.raised

\* C8: whenever a compose decision sends a notification, its message is the text
\* the LLM returned on success or the deterministic fallback of the title; the
\* client's diagnostic strings are never sent.
C8_ComposedOrFallback ==
    ( /\ HasEvaluated
      /\ ev.kind = "compose"
      /\ ev.sent # NoNotification )
    => \/ /\ ev.llm.ret = "LLM_CONTENT"
          /\ ev.sent.message = LLMMessage("LLM_CONTENT")
       \/ /\ ev.llm.ret # "LLM_CONTENT"
          /\ ev.title.prefix = "Upcoming: "
          /\ ev.sent.message.text = "Prepare for: <task> at <time>."
       \/ /\ ev.llm.ret # "LLM_CONTENT"
          /\ ev.title.prefix = "Check-in: "
          /\ ev.sent.message.text = "Doing: <task>. Keep it up!"

\* C9: when the active entry is Sleep (any letter case), starts exactly at now,
\* and sleep_notification_count is 0, the evaluation sends "Current Task: Sleep"
\* and leaves sleep_notification_count = 1.
C9_SleepAtStartReminds ==
    ( /\ HasEvaluated
      /\ Lower(ev.active) = "sleep"
      /\ ev.now = ev.active_dt
      /\ ev.count_before = 0 )
    => /\ ev.sent.title = SleepTitle
       /\ sleep_notification_count = 1

\* between its first read and its last write of the two globals
InCriticalRegion(t) ==
    pc[t] \in {"L321", "L326", "L327", "L327_store", "L328", "L338"}

\* C10: the evaluations are serialized: no two of them are between their first
\* read and last write of the notification state at once, so the sleep reminders
\* sent and sleep_notification_count never exceed max_sleep_notifications.
C10_Serialized ==
    /\ ~(InCriticalRegion("timer") /\ InCriticalRegion("input"))
    /\ sleep_sent <= max_sleep_notifications
    /\ sleep_notification_count <= max_sleep_notifications

---------------------------------------------------------------------------
(* Properties of the resolution and of parse_duration, under SpecPure.     *)

Resolved == call.fn = "resolve" /\ call.state # "pending"

WellFormed(tt) == \A i \in 1..Len(tt) : ~Malformed(tt[i])

Min(S) == CHOOSE x \in S : \A y \in S : x <= y

\* the entry a scan chose, by index in the sorted timetable (<<>> for none)
EntryAt(st, idx) == IF idx = 0 THEN <<>> ELSE <<st[idx]>>

\* C11: an entry with a malformed time string does not abort the resolution:
\* the scans return the active and upcoming entries of the timetable without
\* that entry.
C11_MalformedSkipped ==
    ( /\ Resolved
      /\ ~WellFormed(timetable) )
    => LET clean == Resolve(SelectSeq(timetable, LAMBDA e : ~Malformed(e)), clock)
           r == call.result
       IN /\ call.state = "returned"
          /\ EntryAt(r.st, r.active) = EntryAt(clean.st, clean.active)
          /\ EntryAt(r.st, r.up.idx) = EntryAt(clean.st, clean.up.idx)

\* start and end of the window of entry i on the day of now: start + duration,
\* or the next entry's start, or 23:59:59 for the last entry
WindowStart(st, i, now) == (now \div 86400) * 86400 + st[i].time[1] * 3600 + st[i].time[2] * 60

WindowEnd(st, i, now) ==
    IF st[i].duration_minutes > 0 THEN WindowStart(st, i, now) + st[i].duration_minutes * 60
    ELSE IF i < Len(st) THEN WindowStart(st, i + 1, now)
    ELSE (now \div 86400) * 86400 + 86399

\* the windows tile the day of now
Tiles(st, now) ==
    /\ st # <<>>
    /\ WellFormed(st)
    /\ WindowStart(st, 1, now) = (now \div 86400) * 86400
    /\ \A i \in 1..(Len(st) - 1) : WindowEnd(st, i, now) = WindowStart(st, i + 1, now)
    /\ WindowEnd(st, Len(st), now) >= (now \div 86400) * 86400 + 86399

\* C12: for a timetable whose windows tile the day, every now strictly inside
\* the window of an entry has that entry as the active entry (never None).
C12_TilingAlwaysActive ==
    ( /\ Resolved
      /\ Tiles(sorted_timetable(timetable), clock) )
    => LET st == sorted_timetable(timetable) IN
       /\ call.state = "returned"
       /\ \A i \in 1..Len(st) :
             ( WindowStart(st, i, clock) < clock /\ clock < WindowEnd(st, i, clock) )
             => call.result.active = i

\* the tiling timetable, 07:30: inside the window of Wake, which has no duration
C12_Witness ==
    /\ Resolved
    /\ timetable = load_timetable(TilingFile)
    /\ clock % 86400 = HM(7, 30)
    /\ call.result.active = 2
    /\ call.result.name = "Wake"

\* the characters parse_duration does not ignore
Kept(s) == SelectSeq(s, LAMBDA c : c \in Digits \cup {"h", "m"})

\* where the run of digits that ends at position j of k starts (j + 1: no digits)
RunStart(k, j) ==
    CHOOSE a \in 1..(j + 1) :
        /\ \A q \in a..j : k[q] \in Digits
        /\ a = 1 \/ k[a - 1] \notin Digits

\* the decimal value of k[a..j]
RECURSIVE Decimal(_, _, _)
Decimal(k, a, j) == IF j < a THEN 0 ELSE Decimal(k, a, j - 1) * 10 + DigitVal(k[j])

\* what the (digits)(unit) pair whose unit is at position j contributes
Contribution(k, j) ==
    IF k[j] \in Digits \/ j = 1 THEN 0
    ELSE LET v == Decimal(k, RunStart(k, j - 1), j - 1) IN
         IF k[j] = "h" THEN v * 60 ELSE v

RECURSIVE PairSum(_, _)
PairSum(k, j) == IF j = 0 THEN 0 ELSE PairSum(k, j - 1) + Contribution(k, j)

\* C14: parse_duration returns the sum, over the (digits)(unit) pairs of the
\* input, of digits * 60 for h and digits for m, and None for the empty or absent
\* input; "1h30m" gives 90, "45m" 45, "2h" 120 and "" None.
C14_ParseDurationSum ==
    ( /\ call.fn = "parse_duration"
      /\ call.state = "returned" )
    => LET d == call.duration_str IN
       /\ d = <<>> => call.result = None
       /\ d # <<>> => call.result = PairSum(Kept(d), Len(Kept(d)))
       /\ d = <<"1", "h", "3", "0", "m">> => call.result = 90
       /\ d = <<"4", "5", "m">> => call.result = 45
       /\ d = <<"2", "h">> => call.result = 120

\* "1h30m" parsed to 90
C14_Witness ==
    /\ call.fn = "parse_duration"
    /\ call.state = "returned"
    /\ call.duration_str = <<"1", "h", "3", "0", "m">>
    /\ call.result = 90

\* C17: the active entry is the first entry, in time-sorted order, with
\* start <= now <= end, both bounds inclusive (None if there is none); so at
\* now = the start of entry i+1, when entry i has no duration and no earlier
\* window holds now, the entry returned is entry i, not entry i+1.
C17_FirstInclusiveWindow ==
    ( /\ Resolved
      /\ WellFormed(timetable) )
    => LET st == sorted_timetable(timetable)
           W == { i \in 1..Len(st) :
                    WindowStart(st, i, clock) <= clock /\ clock <= WindowEnd(st, i, clock) }
       IN /\ call.state = "returned"
          /\ call.result.active = IF W = {} THEN 0 ELSE Min(W)
          /\ \A i \in 1..(Len(st) - 1) :
                ( /\ ~(st[i].duration_minutes > 0)
                  /\ clock = WindowStart(st, i + 1, clock)
                  /\ \A j \in 1..(i - 1) : j \notin W )
                => call.result.active = i

\* [08:00 Wake, 09:00 Work, ...] at 09:00: Wake is returned
C17_Witness ==
    /\ Resolved
    /\ timetable = load_timetable(WakeWorkSleepFile)
    /\ clock % 86400 = HM(9, 0)
    /\ call.result.active = 1
    /\ call.result.name = "Wake"

\* C18: when now equals the start of entry i (not the first) and now is after
\* the start of entry i-1 plus its duration, the previous entry i-1 is returned
\* as the active entry, without an error.
C18_BoundaryCarryOver ==
    ( /\ Resolved
      /\ WellFormed(timetable) )
    => LET st == sorted_timetable(timetable) IN
       \A i \in 2..Len(st) :
          ( /\ clock = WindowStart(st, i, clock)
            /\ clock > WindowStart(st, i - 1, clock)
                         + (IF st[i - 1].duration_minutes > 0
                            THEN st[i - 1].duration_minutes * 60 ELSE 0) )
          => /\ call.state = "returned"
             /\ call.result.active = i - 1

\* |x| in whole minutes
WholeMinutes(x) == (IF x >= 0 THEN x ELSE -x) \div 60

\* C19: the upcoming entry is the first entry, in time-sorted order, with
\* start >= now - grace_minutes_after_start (none if no entry qualifies);
\* minutes_until_upcoming is start - now in minutes truncated toward zero; and
\* upcoming_just_started holds exactly when now >= start and now - start is at
\* most grace_minutes_after_start minutes.
C19_UpcomingRule ==
    ( /\ Resolved
      /\ WellFormed(timetable) )
    => LET st == sorted_timetable(timetable)
           up == call.result.up
           Q == { i \in 1..Len(st) : WindowStart(st, i, clock) >= clock - 2 * 60 }
       IN /\ up.idx = IF Q = {} THEN 0 ELSE Min(Q)
          /\ up.idx = 0 => ~up.just_started
          /\ up.idx # 0 =>
               LET d == WindowStart(st, up.idx, clock) - clock IN
               /\ up.minutes = IF d >= 0 THEN WholeMinutes(d) ELSE -WholeMinutes(d)
               /\ up.just_started <=> (d <= 0 /\ -d <= 2 * 60)

\* the single entry at 09:00, now 09:00:30: upcoming, just started, 0 minutes
C19_Witness ==
    /\ Resolved
    /\ timetable = load_timetable(WorkOnlyFile)
    /\ clock % 86400 = HM(9, 0) + 30
    /\ call.result.up.idx = 1
    /\ call.result.up.just_started
    /\ call.result.up.minutes = 0

---------------------------------------------------------------------------
(* Properties of the policy, under Spec.                                   *)

\* C13: an evaluation changes last_in_task_notification_time or
\* sleep_notification_count only when it emits a notification (a tick that emits
\* nothing leaves both unchanged), and sleep_notification_count is changed only
\* by the sleep-reminder branch.
C13_StateChangesOnlyOnEmit ==
    [][ /\ ( \/ last_in_task_notification_time' # last_in_task_notification_time
             \/ sleep_notification_count' # sleep_notification_count )
           => ev'.sent # NoNotification
        /\ sleep_notification_count' # sleep_notification_count
           => IsSleepReminder(ev'.sent) ]_vars

\* C15: when a named entry is active and its check-in is throttled, and the
\* upcoming entry starts within minutes_before_task or has just started, the
\* evaluation emits the upcoming-task notification for that entry.
C15_UpcomingWhenThrottled ==
    ( /\ HasEvaluated
      /\ ev.active # ""
      /\ ev.branch = "active"
      /\ ev.upcoming # ""
      /\ \/ ( 0 <= ev.upcoming_dt - ev.now
              /\ ev.upcoming_dt - ev.now <= MINUTES_BEFORE_TASK * 60 )
         \/ ev.just_started )
    => /\ ev.title \in {Title("Upcoming: ", ev.upcoming), Title("Time for Bed!", "")}
       /\ ev.sent # NoNotification

\* C16: while Sleep is the active entry and sleep_notification_count is below
\* max_sleep_notifications, a sleep reminder is emitted exactly when, with elapsed
\* measured from the start of the active Sleep entry, elapsed <= 0, or elapsed >=
\* sleep_follow_up_interval minutes and sleep_notification_count = 1.
C16_SleepFiresFromOwnStart ==
    ( /\ HasEvaluated
      /\ Lower(ev.active) = "sleep"
      /\ ev.count_before < max_sleep_notifications )
    => ( IsSleepReminder(ev.sent)
         <=> \/ ev.now - ev.active_dt <= 0
             \/ ( ev.now - ev.active_dt >= sleep_follow_up_interval * 60
                  /\ ev.count_before = 1 ) )

\* C20: when Sleep is active, sleep_notification_count is below
\* max_sleep_notifications and the fire condition of the sleep reminder is false,
\* the evaluation ends with no notification (no check-in, no upcoming
\* notification, no LLM call) and leaves last_in_task_notification_time and
\* sleep_notification_count unchanged; a check-in for an active Sleep entry is
\* considered only once sleep_notification_count >= max_sleep_notifications.
C20_SuppressedSleepIsSilent ==
    [][ /\ ( /\ ev'.branch \notin {"", "empty", "resolve"}
             /\ Lower(ev'.active) = "sleep"
             /\ ev'.count_before < max_sleep_notifications
             /\ ~( \/ ev'.now - ev'.task_dt_local <= 0
                   \/ ( ev'.now - ev'.task_dt_local >= sleep_follow_up_interval * 60
                        /\ ev'.count_before = 1 ) ) )
           => /\ ev'.sent = NoNotification
              /\ ev'.title = NoTitle
              /\ ev'.prompt = NoPrompt
              /\ ev'.llm = NoCall
              /\ ~ev'.raised
              /\ last_in_task_notification_time' = last_in_task_notification_time
              /\ sleep_notification_count' = sleep_notification_count
        /\ ( Lower(ev'.active) = "sleep" /\ ev'.branch \in {"checkin", "active"} )
           => ev'.count_before >= max_sleep_notifications ]_vars

\* a tick between the two reminders of an active Sleep entry: nothing is sent
C20_Witness ==
    /\ HasEvaluated
    /\ Lower(ev.active) = "sleep"
    /\ ev.count_before = 1
    /\ ev.branch = "sleep"
    /\ ev.sent = NoNotification
    /\ ev.llm = NoCall
    /\ sleep_notification_count = 1

\* C21: one evaluation of get_smart_notification calls send_notification at most
\* once and get_llm_response at most once, and never both sends a fixed-text
\* notification and asks for a composition.
C21_OneSendOneCall ==
    /\ ev.sends <= 1
    /\ ev.llm_calls <= 1
    /\ ~(ev.immediate >= 1 /\ ev.llm_calls >= 1)

\* a compose decision: one LLM call, then one notification sent, no fixed text
C21_Witness ==
    /\ HasEvaluated
    /\ ev.kind = "compose"
    /\ ev.llm_calls = 1
    /\ ev.sends = 1
    /\ ev.immediate = 0
    /\ ev.sent # NoNotification

\* C22: as long as shutdown has not been requested, check_notifications has
\* re-armed the timer after every evaluation, whatever happened inside it (a
\* malformed timetable entry, a failed or malformed LLM response): a timer tick
\* is always pending, so every tick is followed by another.
C22_TimerAlwaysRearmed ==
    ~shutdown_flag => timer_armed

=============================================================================
